---- MODULE Spec2Model ----
(***************************************************************************)
(* The streaming chat relay of app_streaming.py: chat turns that relay the *)
(* inference backend's NDJSON stream as SSE frames and keep per-session    *)
(* state (context:<id>, session:<id>) in a Redis store; and the console   *)
(* agent of chat_agent.py, which keeps its messages and context in a       *)
(* ChatState and asks the backend through ollama_client.py.                *)
(*                                                                         *)
(* Texts (prompts, replies, session identifiers, keys, JSON texts) are     *)
(* sequences of one-character or one-word tokens, so that strip, split,    *)
(* key building and JSON encoding are computed rather than assumed.        *)
(***************************************************************************)
EXTENDS Integers, Sequences, FiniteSets, TLC

\* Bound of the model: the number of events the environment produces (requests,
\* lines of the backend, ends and failures of its stream, client disconnects,
\* reads of a history, console inputs and backend answers to the console agent).
MaxEvents == 4

\* One turn per request.
Turns == 1..MaxEvents

\* ------------------------------------------------------------------------
\* Python values
\* ------------------------------------------------------------------------
\* Optional[...]: None, or a value.
None == [some |-> FALSE]
Some(x) == [some |-> TRUE, val |-> x]

\* dict.get(key, default)
DictGet(d, k, default) == IF k \in DOMAIN d THEN d[k] ELSE default

\* str.strip(): leading and trailing whitespace removed.
RECURSIVE LStrip(_)
LStrip(s) == IF s # <<>> /\ Head(s) = " " THEN LStrip(Tail(s)) ELSE s

RECURSIVE RStrip(_)
RStrip(s) ==
    IF s # <<>> /\ s[Len(s)] = " " THEN RStrip(SubSeq(s, 1, Len(s) - 1)) ELSE s

\* Strip without the stripping: the message is taken as sent.
StripNothing(s) == s

Strip(s) == RStrip(LStrip(s))

\* json.dumps / json.loads of a list of integers: "[", the items, "]".
JsonDumpsList(c) == <<"[">> \o [i \in 1..Len(c) |-> ToString(c[i])] \o <<"]">>

TokenIds == 0..9
StrToInt(s) == CHOOSE n \in TokenIds : ToString(n) = s
JsonLoadsList(txt) == [i \in 1..(Len(txt) - 2) |-> StrToInt(txt[i + 1])]

\* json.dumps / json.loads of {"role": role, "content": content}.
JsonDumpsMsg(m) == <<"{", m.role, ":">> \o m.content \o <<"}">>
JsonLoadsMsg(txt) == [role |-> txt[2], content |-> SubSeq(txt, 4, Len(txt) - 1)]

\* ------------------------------------------------------------------------
\* Inputs
\* ------------------------------------------------------------------------
\* Caller-supplied session identifiers, and the identifiers uuid4 can return.
ClientIds == {<<"a">>, <<"a", ":", "b">>}
UUIDs == {<<"u">>}

\* Request bodies: without a message, or with a raw message text.
RawMessages == {<<>>, <<" ">>, <<" ", "H", " ">>}
Bodies == {[model |-> <<"x">>]} \cup {[message |-> m] : m \in RawMessages}

\* What the backend can put on one line of its response: partial events, and
\* terminal events without a context, with an empty one and with a token list.
Events ==
    { [response |-> <<"H", "i">>, done |-> FALSE],
      [response |-> <<>>, done |-> TRUE],
      [response |-> <<>>, done |-> TRUE, context |-> <<>>],
      [response |-> <<>>, done |-> TRUE, context |-> <<1>>],
      [response |-> <<"!">>, done |-> TRUE, context |-> <<2>>] }
Lines ==
    {[text |-> "blank"], [text |-> "noise"]}
        \cup {[text |-> "json", obj |-> e] : e \in Events}

\* JsonLoads taking an unparseable line for an event without text.
JsonLoadsLenient(line) ==
    IF line.text = "json" THEN Some(line.obj) ELSE Some([response |-> <<>>])

\* json.loads(chunk): the object, or None for a JSONDecodeError.
JsonLoads(line) == IF line.text = "json" THEN Some(line.obj) ELSE None

\* f"data: {json.dumps(data)}\n\n"
SseFrame(data) == <<"data: ", data, "\n\n">>

\* ------------------------------------------------------------------------
\* The Redis store: a map from keys to values
\* ------------------------------------------------------------------------
\* ContextKey with one key for all sessions.
ContextKeyShared(session_id) == <<"context", ":">>

ContextKey(session_id) == <<"context", ":">> \o session_id
\* SessionKey with one key for all sessions.
SessionKeyShared(session_id) == <<"session", ":">>

SessionKey(session_id) == <<"session", ":">> \o session_id

\* r.get(key): the value, or None
RedisGet(store, key) == IF key \in DOMAIN store THEN Some(store[key]) ELSE None

\* r.set(key, value)
RedisSet(store, key, value) ==
    [k \in DOMAIN store \cup {key} |-> IF k = key THEN value ELSE store[k]]

\* RedisRPush pushing at the head of the list, as r.lpush does.
RedisLPush(store, key, value) ==
    [k \in DOMAIN store \cup {key} |->
        IF k = key
        THEN <<value>> \o (IF key \in DOMAIN store THEN store[key] ELSE <<>>)
        ELSE store[k]]

\* r.rpush(key, value): creates the list when the key is absent
RedisRPush(store, key, value) ==
    [k \in DOMAIN store \cup {key} |->
        IF k = key
        THEN (IF key \in DOMAIN store THEN store[key] ELSE <<>>) \o <<value>>
        ELSE store[k]]

\* r.lrange(key, 0, -1): the empty list when the key is absent
RedisLRange(store, key) == IF key \in DOMAIN store THEN store[key] ELSE <<>>

\* r.delete(*keys)
RedisDelete(store, keys) == [k \in DOMAIN store \ keys |-> store[k]]

\* get_context(session_id): json.loads(val) if val else None
GetContext(store, session_id) ==
    LET val == RedisGet(store, ContextKey(session_id))
    IN  IF val.some /\ Len(val.val) > 0 THEN Some(JsonLoadsList(val.val)) ELSE None

\* set_context(session_id, context)
SetContext(store, session_id, context) ==
    RedisSet(store, ContextKey(session_id), JsonDumpsList(context))

\* AppendMessage storing the message as the whole list, as r.set would.
AppendMessageReplacing(store, session_id, role, content) ==
    RedisSet(store, SessionKey(session_id),
             <<JsonDumpsMsg([role |-> role, content |-> content])>>)

\* append_message(session_id, role, content)
AppendMessage(store, session_id, role, content) ==
    RedisRPush(store, SessionKey(session_id),
               JsonDumpsMsg([role |-> role, content |-> content]))

\* get_conversation(session_id)
GetConversation(store, session_id) ==
    LET msgs == RedisLRange(store, SessionKey(session_id))
    IN  [i \in 1..Len(msgs) |-> JsonLoadsMsg(msgs[i])]

\* str.split(sep): the pieces between the separators.
RECURSIVE Split(_, _)
Split(s, sep) ==
    IF \A i \in 1..Len(s) : s[i] # sep
    THEN <<s>>
    ELSE LET i == CHOOSE i \in 1..Len(s) :
                      s[i] = sep /\ \A j \in 1..(i - 1) : s[j] # sep
         IN  <<SubSeq(s, 1, i - 1)>> \o Split(SubSeq(s, i + 1, Len(s)), sep)

\* r.keys(prefix + "*")
RedisKeys(store, prefix) ==
    {k \in DOMAIN store :
        Len(k) >= Len(prefix) /\ SubSeq(k, 1, Len(prefix)) = prefix}

\* list_conversations(): what it returns, as a set
ListConversations(store) ==
    {Split(k, ":")[2] : k \in RedisKeys(store, <<"session", ":">>)}

\* The request stream_from_ollama posts: context only when it is truthy.
Truthy(opt) == opt.some /\ Len(opt.val) > 0
Payload(prompt, context) ==
    IF Truthy(context)
    THEN [prompt |-> prompt, stream |-> TRUE, context |-> context.val]
    ELSE [prompt |-> prompt, stream |-> TRUE]

\* ------------------------------------------------------------------------
\* The console agent (chat_agent.py) and its client (ollama_client.py)
\* ------------------------------------------------------------------------
\* str.lower(), on the tokens of the console inputs.
LowerToken(c) ==
    CASE c = "QUIT" -> "quit"
      [] c = "H" -> "h"
      [] c = "Y" -> "y"
      [] OTHER -> c
Lower(s) == [i \in 1..Len(s) |-> LowerToken(s[i])]

\* What the user types at the "You: " prompt.
Inputs == {<<"H">>, <<" ", "Y", " ">>, <<>>, <<"exit">>, <<" ", "QUIT">>}

\* What the backend answers to a non-streaming generate request.
Results ==
    { [response |-> <<"H", "i">>, context |-> <<1>>],
      [response |-> <<>>, context |-> <<>>],
      [response |-> <<"!">>],
      [context |-> <<2>>] }

stream_default == FALSE

\* GeneratePayload never sending a context.
GeneratePayloadStateless(prompt, context, stream) ==
    [prompt |-> prompt, stream |-> IF stream.some THEN stream.val ELSE stream_default]

\* The request OllamaClient.generate posts: context only when it is truthy.
GeneratePayload(prompt, context, stream) ==
    LET flag == IF stream.some THEN stream.val ELSE stream_default
    IN  IF Truthy(context)
        THEN [prompt |-> prompt, stream |-> flag, context |-> context.val]
        ELSE [prompt |-> prompt, stream |-> flag]

\* ollama_node(state), given the result generate returned.
OllamaNode(st, result) ==
    LET previous_context == DictGet(st, "context", None)
        reply == DictGet(result, "response", <<>>)
        new_context == IF "context" \in DOMAIN result
                       THEN Some(result.context)
                       ELSE previous_context
    IN  [messages |-> Append(st.messages, reply), context |-> new_context]

\* ------------------------------------------------------------------------
\* State
\* ------------------------------------------------------------------------
VARIABLES
    r,                 \* the Redis store
    issued,            \* identifiers new_conversation has returned
    pc,                \* where each turn's handler or generator is
    connected,         \* the turn's client is still connected
    session_id,        \* the turn's session_id query parameter
    body,              \* the turn's request body
    prompt,            \* the turn's stripped message
    existing_context,  \* the context the turn read at its start
    data,              \* the event the generator last parsed
    status,            \* the HTTP status of the turn's response (0: none yet)
    payload,           \* the request the turn posted to the backend
    received,          \* the lines the backend has sent to the turn
    frames,            \* the SSE frames the turn has yielded
    writes,            \* the store writes the turn's generator has made
    commits,           \* the turns whose terminal events were processed, in order
    user_at,           \* the position of the turn's user message in the log
    inflight_at_start, \* the turns in flight on the session when this one started
    commits_at_start,  \* the length of commits when this turn started
    previous,          \* the turn that last committed on the session, when this
                       \* turn started after it had closed (0: none)
    interleaved,       \* another turn appended to the session's log between this
                       \* turn's user message and its first assistant message
    state,             \* the console agent's ChatState
    agent_pc,          \* where the console loop is
    inputs,            \* the stripped inputs the console loop has accepted
    rounds,            \* per round: the request posted, the result, the context left
    history,           \* the last response of GET /conversation/{session_id}
    events             \* the number of events so far

handler == <<pc, connected, session_id, body, prompt, existing_context, data, status>>
observed == <<payload, received, frames, writes, commits>>
timing == <<user_at, inflight_at_start, commits_at_start, previous, interleaved>>
relay == <<r, issued, handler, observed, timing>>
agent == <<state, agent_pc, inputs, rounds>>
vars == <<relay, agent, history, events>>

NoEvent == [response |-> <<>>]

Init ==
    /\ r = <<>>
    /\ issued = {}
    /\ pc = [t \in Turns |-> "idle"]
    /\ connected = [t \in Turns |-> TRUE]
    /\ session_id = [t \in Turns |-> <<>>]
    /\ body = [t \in Turns |-> [model |-> <<"x">>]]
    /\ prompt = [t \in Turns |-> <<>>]
    /\ existing_context = [t \in Turns |-> None]
    /\ data = [t \in Turns |-> NoEvent]
    /\ status = [t \in Turns |-> 0]
    /\ payload = [t \in Turns |-> None]
    /\ received = [t \in Turns |-> <<>>]
    /\ frames = [t \in Turns |-> <<>>]
    /\ writes = [t \in Turns |-> <<>>]
    /\ commits = <<>>
    /\ user_at = [t \in Turns |-> 0]
    /\ inflight_at_start = [t \in Turns |-> {}]
    /\ commits_at_start = [t \in Turns |-> 0]
    /\ previous = [t \in Turns |-> 0]
    /\ interleaved = [t \in Turns |-> FALSE]
    /\ state = [messages |-> <<>>, context |-> None]
    /\ agent_pc = "input"
    /\ inputs = <<>>
    /\ rounds = <<>>
    /\ history = None
    /\ events = 0

\* The turn's generator exists and its response is still iterating it.
InFlight(t) == pc[t] \in {"awaiting", "yielded"} /\ connected[t]

\* An event of the environment, within the bound.
Event == events < MaxEvents /\ events' = events + 1

\* The turn that last committed on session s (0: none).
RECURSIVE LastCommitOn(_, _)
LastCommitOn(cs, s) ==
    IF cs = <<>> THEN 0
    ELSE IF session_id[cs[Len(cs)]] = s THEN cs[Len(cs)]
    ELSE LastCommitOn(SubSeq(cs, 1, Len(cs) - 1), s)

\* ------------------------------------------------------------------------
\* The store writes of the generator after it has yielded the frame of `d`
\* ------------------------------------------------------------------------
\* data.get("context"): None when the key is missing
EventContext(d) == IF "context" \in DOMAIN d THEN Some(d.context) ELSE None

\* if data.get("done"): ...
IsTerminal(d) == DictGet(d, "done", FALSE)

\* CommitWrites without the test of "done": every event is committed.
CommitWritesEveryEvent(d) ==
    (IF Truthy(EventContext(d))
     THEN <<[op |-> "set_context", context |-> EventContext(d).val]>>
     ELSE <<>>)
    \o <<[op |-> "append_message", role |-> "assistant",
          content |-> DictGet(d, "response", <<>>)]>>

\* CommitWrites storing an empty context when the terminal event carries none.
CommitWritesResetting(d) ==
    IF IsTerminal(d)
    THEN <<[op |-> "set_context", context |-> DictGet(d, "context", <<>>)],
           [op |-> "append_message", role |-> "assistant",
            content |-> DictGet(d, "response", <<>>)]>>
    ELSE <<>>

CommitWrites(d) ==
    IF IsTerminal(d)
    THEN (IF Truthy(EventContext(d))
          THEN <<[op |-> "set_context", context |-> EventContext(d).val]>>
          ELSE <<>>)
         \o <<[op |-> "append_message", role |-> "assistant",
               content |-> DictGet(d, "response", <<>>)]>>
    ELSE <<>>

RECURSIVE ApplyWrites(_, _, _)
ApplyWrites(store, s, ops) ==
    IF ops = <<>> THEN store
    ELSE LET w == Head(ops)
             next == IF w.op = "set_context"
                     THEN SetContext(store, s, w.context)
                     ELSE AppendMessage(store, s, w.role, w.content)
         IN  ApplyWrites(next, s, Tail(ops))

\* The turn's generator has appended an assistant message.
HasAppended(ws) == \E i \in 1..Len(ws) : ws[i].op = "append_message"

\* The turns on session s that wait for their first assistant message.
Waiting(s) ==
    {u \in Turns : /\ pc[u] \in {"awaiting", "yielded"}
                   /\ session_id[u] = s
                   /\ ~HasAppended(writes[u])}

\* Forward dropping a frame equal to the one before it.
ForwardDistinct(fs, d) ==
    IF fs # <<>> /\ fs[Len(fs)] = SseFrame(d) THEN fs ELSE Append(fs, SseFrame(d))

\* Forward withholding the frame of a terminal event.
ForwardPartials(fs, d) == IF IsTerminal(d) THEN fs ELSE Append(fs, SseFrame(d))

\* yield f"data: {json.dumps(data)}\n\n"
Forward(fs, d) == Append(fs, SseFrame(d))

\* ------------------------------------------------------------------------
\* POST /chat/stream: validation, user message, context read
\* ------------------------------------------------------------------------
ChatStream(t, s, b) ==
    /\ Event
    /\ pc[t] = "idle"
    /\ IF t = 1 THEN TRUE ELSE pc[t - 1] # "idle"
    /\ LET p == Strip(DictGet(b, "message", <<>>))
           last == LastCommitOn(commits, s)
       IN  /\ session_id' = [session_id EXCEPT ![t] = s]
           /\ body' = [body EXCEPT ![t] = b]
           /\ prompt' = [prompt EXCEPT ![t] = p]
           /\ IF p = <<>>
              THEN \* JSONResponse({"error": "Empty message"}, status_code=400)
                   /\ pc' = [pc EXCEPT ![t] = "rejected"]
                   /\ status' = [status EXCEPT ![t] = 400]
                   /\ UNCHANGED <<r, existing_context, payload, timing>>
              ELSE LET store == AppendMessage(r, s, "user", p)
                       ctx == GetContext(store, s)
                   IN  /\ r' = store
                       /\ existing_context' = [existing_context EXCEPT ![t] = ctx]
                       /\ payload' = [payload EXCEPT ![t] = Some(Payload(p, ctx))]
                       /\ pc' = [pc EXCEPT ![t] = "awaiting"]
                       /\ status' = [status EXCEPT ![t] = 200]
                       /\ user_at' = [user_at EXCEPT ![t] =
                              Len(RedisLRange(store, SessionKey(s)))]
                       /\ inflight_at_start' = [inflight_at_start EXCEPT ![t] =
                              {u \in Turns : InFlight(u) /\ session_id[u] = s}]
                       /\ commits_at_start' = [commits_at_start EXCEPT ![t] = Len(commits)]
                       /\ previous' = [previous EXCEPT ![t] =
                              IF last # 0 /\ pc[last] = "closed" THEN last ELSE 0]
                       /\ interleaved' = [u \in Turns |->
                              interleaved[u] \/ u \in Waiting(s)]
    /\ UNCHANGED <<issued, connected, data, received, frames, writes, commits, agent, history>>

\* ------------------------------------------------------------------------
\* event_generator: one line of the backend's response arrives
\* ------------------------------------------------------------------------
StreamLine(t, line) ==
    /\ Event
    /\ InFlight(t)
    /\ pc[t] = "awaiting"
    /\ received' = [received EXCEPT ![t] = Append(@, line)]
    /\ IF line.text = "blank"
       THEN UNCHANGED <<pc, data, frames>>
       ELSE LET parsed == JsonLoads(line)
            IN  IF ~parsed.some
                THEN UNCHANGED <<pc, data, frames>>
                ELSE /\ data' = [data EXCEPT ![t] = parsed.val]
                     /\ frames' = [frames EXCEPT ![t] = Forward(@, parsed.val)]
                     /\ pc' = [pc EXCEPT ![t] = "yielded"]
    /\ UNCHANGED <<agent, history, r, issued, connected, session_id, body, prompt, existing_context,
                   status, payload, writes, commits, timing>>

\* event_generator resumes after the yield
Resume(t) ==
    /\ InFlight(t)
    /\ pc[t] = "yielded"
    /\ LET ops == CommitWrites(data[t])
       IN  /\ r' = ApplyWrites(r, session_id[t], ops)
           /\ writes' = [writes EXCEPT ![t] = @ \o ops]
           /\ commits' = IF ops # <<>> THEN Append(commits, t) ELSE commits
           /\ interleaved' = [u \in Turns |->
                  interleaved[u]
                      \/ (HasAppended(ops) /\ u # t /\ u \in Waiting(session_id[t]))]
    /\ pc' = [pc EXCEPT ![t] = "awaiting"]
    /\ UNCHANGED <<agent, history, issued, connected, session_id, body, prompt, existing_context,
                   data, status, payload, received, frames, user_at,
                   inflight_at_start, commits_at_start, previous, events>>

\* the backend's response ends: the generator returns
StreamEnd(t) ==
    /\ Event
    /\ InFlight(t)
    /\ pc[t] = "awaiting"
    /\ pc' = [pc EXCEPT ![t] = "closed"]
    /\ UNCHANGED <<agent, history, r, issued, connected, session_id, body, prompt, existing_context,
                   data, status, observed, timing>>

\* the backend's connection fails: the generator raises
StreamFail(t) ==
    /\ Event
    /\ InFlight(t)
    /\ pc[t] = "awaiting"
    /\ pc' = [pc EXCEPT ![t] = "failed"]
    /\ UNCHANGED <<agent, history, r, issued, connected, session_id, body, prompt, existing_context,
                   data, status, observed, timing>>

\* the client goes away: the response stops iterating the generator, which stays
\* where it is suspended (waiting for a line, or at its yield) and is closed there
Disconnect(t) ==
    /\ Event
    /\ InFlight(t)
    /\ connected' = [connected EXCEPT ![t] = FALSE]
    /\ UNCHANGED <<agent, history, r, issued, pc, session_id, body, prompt, existing_context,
                   data, status, observed, timing>>

\* ------------------------------------------------------------------------
\* POST /new_conversation
\* ------------------------------------------------------------------------
\* Identifiers referenced so far; uuid4 returns one that is not among them.
Referenced ==
    issued \cup {session_id[t] : t \in {u \in Turns : pc[u] # "idle"}}

\* StartConversation without the r.delete.
StartConversationKeeping(store, n) ==
    AppendMessage(store, n, "system", <<"New conversation started.">>)

\* The store writes of new_conversation: r.delete of both keys, then the
\* system message.
StartConversation(store, n) ==
    AppendMessage(RedisDelete(store, {SessionKey(n), ContextKey(n)}),
                  n, "system", <<"New conversation started.">>)

NewConversation(n) ==
    /\ Event
    /\ n \notin Referenced
    /\ r' = StartConversation(r, n)
    /\ issued' = issued \cup {n}
    /\ UNCHANGED <<handler, observed, timing, agent, history>>

Next ==
    \/ \E t \in Turns, s \in ClientIds \cup issued, b \in Bodies : ChatStream(t, s, b)
    \/ \E t \in Turns, line \in Lines : StreamLine(t, line)
    \/ \E t \in Turns : Resume(t)
    \/ \E t \in Turns : StreamEnd(t)
    \/ \E t \in Turns : StreamFail(t)
    \/ \E t \in Turns : Disconnect(t)
    \/ \E n \in UUIDs : NewConversation(n)

Spec == Init /\ [][Next]_vars

\* ------------------------------------------------------------------------
\* The console loop of chat_agent.py
\* ------------------------------------------------------------------------
\* One pass of the loop up to the invocation of the graph.
UserInput(line) ==
    /\ Event
    /\ agent_pc = "input"
    /\ LET user_input == Strip(line)
       IN  IF Lower(user_input) \in {<<"exit">>, <<"quit">>}
           THEN /\ agent_pc' = "exited"
                /\ UNCHANGED <<state, inputs>>
           ELSE /\ state' = [state EXCEPT !.messages = Append(@, user_input)]
                /\ inputs' = Append(inputs, user_input)
                /\ agent_pc' = "invoke"
    /\ UNCHANGED <<rounds, relay, history>>

\* chat_agent.invoke(state) with the backend answering result, and the
\* assignment of what it returns to state.
Invoke(result) ==
    /\ Event
    /\ agent_pc = "invoke"
    /\ LET user_prompt == state.messages[Len(state.messages)]
           sent == GeneratePayload(user_prompt, DictGet(state, "context", None),
                                   Some(FALSE))
           returned == OllamaNode(state, result)
       IN  /\ state' = returned
           /\ rounds' = Append(rounds, [payload |-> sent, result |-> result,
                                        context |-> returned.context])
    /\ agent_pc' = "input"
    /\ UNCHANGED <<inputs, relay, history>>

\* generate raises (no connection, or raise_for_status): nothing catches it.
InvokeFail ==
    /\ Event
    /\ agent_pc = "invoke"
    /\ agent_pc' = "crashed"
    /\ UNCHANGED <<state, inputs, rounds, relay, history>>

AgentNext ==
    \/ \E line \in Inputs : UserInput(line)
    \/ \E result \in Results : Invoke(result)
    \/ InvokeFail

AgentSpec == Init /\ [][AgentNext]_vars

\* ------------------------------------------------------------------------
\* GET /conversation/{session_id}
\* ------------------------------------------------------------------------
ConversationHistory(s) ==
    /\ Event
    /\ history' = Some([session_id |-> s, messages |-> GetConversation(r, s)])
    /\ UNCHANGED <<relay, agent>>

\* The relay with its read route.
Serve ==
    \/ Next
    \/ \E s \in ClientIds \cup UUIDs : ConversationHistory(s)
ServeSpec == Init /\ [][Serve]_vars

\* The relay and the console agent side by side.
Both == Next \/ AgentNext
BothSpec == Init /\ [][Both]_vars

\* ------------------------------------------------------------------------
\* What a turn has seen and done, read off the state
\* ------------------------------------------------------------------------
Started(t) == status[t] = 200

\* The events among the lines the backend sent: the lines that are JSON texts.
RECURSIVE ObjectsOf(_)
ObjectsOf(ls) ==
    IF ls = <<>> THEN <<>>
    ELSE IF Head(ls).text = "json" THEN <<Head(ls).obj>> \o ObjectsOf(Tail(ls))
    ELSE ObjectsOf(Tail(ls))

ReceivedEvents(t) == ObjectsOf(received[t])

\* The events after whose frame the generator has run on.
ProcessedEvents(t) ==
    LET es == ReceivedEvents(t)
    IN  IF pc[t] = "yielded" THEN SubSeq(es, 1, Len(es) - 1) ELSE es

TerminalAt(es) == {i \in 1..Len(es) : "done" \in DOMAIN es[i] /\ es[i].done}
ContextAt(es) == {i \in TerminalAt(es) : "context" \in DOMAIN es[i]}
Last(S) == CHOOSE i \in S : \A j \in S : j <= i

RECURSIVE Concat(_)
Concat(es) == IF es = <<>> THEN <<>> ELSE Head(es).response \o Concat(Tail(es))

SetContexts(ws) == {i \in 1..Len(ws) : ws[i].op = "set_context"}
Appends(ws) == {i \in 1..Len(ws) : ws[i].op = "append_message"}

\* No other turn on the session was in flight while t was.
Solo(t) ==
    /\ inflight_at_start[t] = {}
    /\ \A u \in Turns : t \notin inflight_at_start[u]

\* No turn on the session started after t (turns start in the order of Turns).
Latest(t) ==
    \A u \in Turns \ {t} : Started(u) /\ session_id[u] = session_id[t] => u < t

Alone(t) == Solo(t) /\ Latest(t)

\* No other turn has committed on t's session since t started.
NoCommitSince(t) ==
    \A i \in (commits_at_start[t] + 1)..Len(commits) :
        commits[i] = t \/ session_id[commits[i]] # session_id[t]

Conversation(s) == GetConversation(r, s)

\* ------------------------------------------------------------------------
\* C1: after a turn on session s that ran alone and whose stream delivered a
\* terminal event carrying a context c, get_context(s) is c, for every c the
\* backend can send, the empty sequence included.
\* ------------------------------------------------------------------------
C1_ContextIsFinalContext ==
    \A t \in Turns :
        LET es == ProcessedEvents(t)
        IN  (Started(t) /\ Alone(t) /\ pc[t] = "closed" /\ ContextAt(es) # {})
                => GetContext(r, session_id[t]) = Some(es[Last(ContextAt(es))].context)

\* ------------------------------------------------------------------------
\* C2: after a turn that completed with a terminal event, the log of its
\* session holds the turn's user message immediately followed by the turn's
\* assistant message.
\* ------------------------------------------------------------------------
UserThenAssistant(t) ==
    LET log == Conversation(session_id[t])
    IN  \E i \in 1..(Len(log) - 1), k \in Appends(writes[t]) :
            /\ log[i] = [role |-> "user", content |-> prompt[t]]
            /\ log[i + 1] = [role |-> "assistant", content |-> writes[t][k].content]

C2_UserThenAssistant ==
    \A t \in Turns : HasAppended(writes[t]) => UserThenAssistant(t)

\* C2 as amended: the same, when no other turn appended to the session's log
\* between the turn's user message and its assistant message; the two messages
\* are then at the positions user_at and user_at + 1 of the log.
C2_UserThenAssistantUninterleaved ==
    \A t \in Turns :
        (HasAppended(writes[t]) /\ ~interleaved[t])
            => LET log == Conversation(session_id[t])
                   first == writes[t][CHOOSE k \in Appends(writes[t]) :
                                          \A j \in Appends(writes[t]) : k <= j]
               IN  /\ Len(log) > user_at[t]
                   /\ log[user_at[t]] = [role |-> "user", content |-> prompt[t]]
                   /\ log[user_at[t] + 1] =
                          [role |-> "assistant", content |-> first.content]

\* Two turns on one session each appended their assistant message, the later
\* one's user message behind the earlier one's messages.
C2_Witness ==
    \E t \in Turns, u \in Turns :
        /\ u < t
        /\ Started(u) /\ Started(t)
        /\ session_id[u] = session_id[t]
        /\ HasAppended(writes[u]) /\ HasAppended(writes[t])
        /\ ~interleaved[t] /\ ~interleaved[u]
        /\ user_at[t] > 1

\* ------------------------------------------------------------------------
\* C3: the assistant message appended at the end of a turn holds the
\* concatenation, in order, of the texts of the events forwarded in the turn.
\* ------------------------------------------------------------------------
C3_AssistantIsAccumulatedText ==
    \A t \in Turns :
        LET es == ProcessedEvents(t)
        IN  (Cardinality(Appends(writes[t])) = 1 /\ es # <<>> /\ Len(es) \in TerminalAt(es))
                => writes[t][Last(Appends(writes[t]))].content = Concat(es)

\* ------------------------------------------------------------------------
\* C4: a turn whose stream fails or ends before any terminal event makes no
\* store write after its user message: no context is set, no assistant message
\* is appended, the user message stays where it was appended, the frames
\* already yielded stay, and get_context(s) is what the turn read at its start
\* unless another turn on s has committed meanwhile.
\* ------------------------------------------------------------------------
Incomplete(t) ==
    /\ Started(t)
    /\ pc[t] \in {"failed", "closed"}
    /\ TerminalAt(ReceivedEvents(t)) = {}

C4_FailedTurnCommitsNothing ==
    \A t \in Turns :
        Incomplete(t)
            => /\ writes[t] = <<>>
               /\ user_at[t] \in 1..Len(Conversation(session_id[t]))
               /\ Conversation(session_id[t])[user_at[t]]
                      = [role |-> "user", content |-> prompt[t]]
               /\ Len(frames[t]) = Len(ReceivedEvents(t))
               /\ NoCommitSince(t)
                      => GetContext(r, session_id[t]) = existing_context[t]

\* A turn that read a stored context and whose stream then failed.
C4_Witness ==
    \E t \in Turns :
        /\ Incomplete(t)
        /\ pc[t] = "failed"
        /\ NoCommitSince(t)
        /\ existing_context[t].some

\* ------------------------------------------------------------------------
\* C5: of two sequential turns on one session, the first completed with a
\* terminal event carrying the context c, the second posts a request whose
\* context field is c.
\* ------------------------------------------------------------------------
C5_SecondTurnSendsFinalContext ==
    \A t \in Turns :
        (Started(t) /\ previous[t] # 0 /\ Solo(previous[t]))
            => LET es == ProcessedEvents(previous[t])
               IN  ContextAt(es) # {}
                       => /\ "context" \in DOMAIN payload[t].val
                          /\ payload[t].val.context = es[Last(ContextAt(es))].context

\* ------------------------------------------------------------------------
\* C6: a request whose message is missing, empty or only whitespace is answered
\* with HTTP 400 before any streaming: the step writes no store key and posts
\* no request to the backend, and the turn never does so later.
\* ------------------------------------------------------------------------
BlankMessage(b) ==
    \/ "message" \notin DOMAIN b
    \/ \A i \in 1..Len(b.message) : b.message[i] = " "

C6_EmptyMessageRejected ==
    [][\A t \in Turns :
          /\ (pc[t] = "idle" /\ pc'[t] # "idle" /\ BlankMessage(body'[t]))
                 => /\ pc'[t] = "rejected"
                    /\ status'[t] = 400
                    /\ r' = r
                    /\ payload' = payload
          /\ pc[t] = "rejected"
                 => /\ pc'[t] = "rejected"
                    /\ payload'[t] = None
                    /\ frames'[t] = <<>>
                    /\ writes'[t] = <<>>]_vars

\* A request with a whitespace message was answered while the store held keys.
C6_Witness ==
    \E t \in Turns :
        /\ pc[t] = "rejected"
        /\ body[t] = [message |-> <<" ">>]
        /\ DOMAIN r # {}

\* ------------------------------------------------------------------------
\* C7: within a turn the relay yields exactly one SSE frame per JSON-parseable
\* line received from the backend, in the backend's order.
\* ------------------------------------------------------------------------
C7_OneFramePerEventInOrder ==
    \A t \in Turns :
        LET es == ReceivedEvents(t)
        IN  frames[t] = [i \in 1..Len(es) |-> <<"data: ", es[i], "\n\n">>]

\* A turn received an unparseable line between two different events.
C7_Witness ==
    \E t \in Turns :
        /\ Len(frames[t]) = 2
        /\ frames[t][1] # frames[t][2]
        /\ Len(received[t]) = 3
        /\ received[t][2].text = "noise"

\* ------------------------------------------------------------------------
\* C8: a turn commits at most once: for any sequence of backend events it makes
\* at most one set_context and appends at most one assistant message.
\* ------------------------------------------------------------------------
C8_AtMostOneCommit ==
    \A t \in Turns :
        /\ Cardinality(SetContexts(writes[t])) <= 1
        /\ Cardinality(Appends(writes[t])) <= 1

\* ------------------------------------------------------------------------
\* C9: when the client disconnects during a turn, the commit still completes:
\* a terminal event the relay has received is committed.
\* ------------------------------------------------------------------------
C9_CommitSurvivesDisconnect ==
    \A t \in Turns :
        (Started(t) /\ ~connected[t])
            => Cardinality(Appends(writes[t]))
                   = Cardinality(TerminalAt(ReceivedEvents(t)))

\* ------------------------------------------------------------------------
\* C10: of two turns on one session that both started before either committed,
\* the stored context after both have completed is the final context of the
\* turn whose terminal event was processed last.
\* ------------------------------------------------------------------------
Racing(t, u) ==
    /\ t < u
    /\ Started(t) /\ Started(u)
    /\ session_id[t] = session_id[u]
    /\ t \in inflight_at_start[u]
    /\ \A i \in 1..commits_at_start[u] : commits[i] # t
    /\ \A v \in Turns \ {t, u} : Started(v) => session_id[v] # session_id[t]

Completed(t) == pc[t] # "yielded" /\ TerminalAt(ProcessedEvents(t)) # {}

C10_LastCommitWins ==
    \A t \in Turns, u \in Turns :
        (Racing(t, u) /\ Completed(t) /\ Completed(u))
            => LET es == ProcessedEvents(commits[Len(commits)])
                   final == es[Last(TerminalAt(es))]
               IN  "context" \in DOMAIN final
                       => GetContext(r, session_id[t]) = Some(final.context)

\* ------------------------------------------------------------------------
\* C11: the commit of a terminal event that carries no context leaves the
\* stored context of the session as it was, absent or present, and appends
\* the assistant message; a turn all of whose terminal events carried no
\* context leaves the context it read at its start, unless another turn
\* committed on the session meanwhile; and ollama_node leaves state's context
\* as it was when the backend's result has no context field.
\* ------------------------------------------------------------------------
CommitsWithoutContext(t) ==
    /\ pc[t] = "yielded"
    /\ writes'[t] # writes[t]
    /\ IsTerminal(data[t])
    /\ "context" \notin DOMAIN data[t]

KeepsContextRead(t) ==
    (Started(t) /\ ContextAt(ProcessedEvents(t)) = {} /\ NoCommitSince(t))
        => GetContext(r, session_id[t]) = existing_context[t]

C11_NoContextKeepsContext ==
    [][/\ \A t \in Turns :
            CommitsWithoutContext(t)
                => /\ RedisGet(r', ContextKey(session_id[t]))
                          = RedisGet(r, ContextKey(session_id[t]))
                   /\ GetConversation(r', session_id[t])
                          = Append(Conversation(session_id[t]),
                                   [role |-> "assistant",
                                    content |-> DictGet(data[t], "response", <<>>)])
       /\ \A t \in Turns : KeepsContextRead(t)'
       /\ (rounds' # rounds /\ "context" \notin DOMAIN rounds'[Len(rounds')].result)
            => state'.context = state.context]_vars

\* A turn stored a context with one terminal event and then committed a
\* terminal event without context, which left that context in the store.
C11_Witness ==
    \E t \in Turns :
        LET es == ProcessedEvents(t)
        IN  /\ Started(t)
            /\ es # <<>>
            /\ Len(es) \in TerminalAt(es) \ ContextAt(es)
            /\ Cardinality(Appends(writes[t])) = Cardinality(TerminalAt(es))
            /\ GetContext(r, session_id[t]) # None

\* ------------------------------------------------------------------------
\* C12: a line of the backend that is not valid JSON is dropped silently: the
\* step that receives it yields no frame, writes nothing to the store and
\* leaves the turn where it was, not failed; and in a turn that received such
\* a line the frames are still those of the parseable events, in order, and
\* the store writes those of the terminal events processed.
\* ------------------------------------------------------------------------
RECURSIVE CommitsOf(_)
CommitsOf(es) ==
    IF es = <<>> THEN <<>> ELSE CommitWrites(Head(es)) \o CommitsOf(Tail(es))

ReceivesNoise(t) ==
    /\ Len(received'[t]) = Len(received[t]) + 1
    /\ received'[t][Len(received'[t])].text = "noise"

GotNoise(t) == \E i \in 1..Len(received[t]) : received[t][i].text = "noise"

OthersForwardedAndCommitted(t) ==
    GotNoise(t)
        => /\ frames[t] = [i \in 1..Len(ReceivedEvents(t)) |->
                              SseFrame(ReceivedEvents(t)[i])]
           /\ writes[t] = CommitsOf(ProcessedEvents(t))

C12_NonJsonLineDropped ==
    [][/\ \A t \in Turns :
            ReceivesNoise(t)
                => /\ frames' = frames
                   /\ r' = r
                   /\ writes' = writes
                   /\ data' = data
                   /\ status' = status
                   /\ pc'[t] = "awaiting"
       /\ \A t \in Turns : OthersForwardedAndCommitted(t)']_vars

\* A turn received an unparseable line and then a terminal event, which it
\* forwarded and committed.
C12_Witness ==
    \E t \in Turns :
        /\ Len(received[t]) = 2
        /\ received[t][1].text = "noise"
        /\ Len(frames[t]) = 1
        /\ HasAppended(writes[t])

\* ------------------------------------------------------------------------
\* C13: under any interleaving of chat_stream turns and new_conversation
\* calls, a step changes the stored context or log of a session only when it
\* is a step of an operation on that session, so an operation on s leaves the
\* context and log of every other session as they were; and the store holds
\* nothing but the contexts and logs of sessions.
\* ------------------------------------------------------------------------
SessionIds == ClientIds \cup UUIDs

StoredUnder(store, x) ==
    <<RedisGet(store, ContextKey(x)), RedisGet(store, SessionKey(x))>>

OperatesOn(x) ==
    \/ \E t \in Turns : pc'[t] # pc[t] /\ session_id'[t] = x
    \/ x \in issued' \ issued

C13_OtherSessionsUntouched ==
    [][/\ \A x \in SessionIds :
            StoredUnder(r', x) # StoredUnder(r, x) => OperatesOn(x)
       /\ DOMAIN r' \subseteq
              {ContextKey(x) : x \in SessionIds} \cup {SessionKey(x) : x \in SessionIds}
      ]_vars

\* A turn has stored a context and an assistant message on its session while
\* another session holds a log of its own.
C13_Witness ==
    \E t \in Turns, x \in SessionIds :
        /\ Started(t)
        /\ x # session_id[t]
        /\ SetContexts(writes[t]) # {}
        /\ HasAppended(writes[t])
        /\ Len(Conversation(x)) > 0

\* ------------------------------------------------------------------------
\* C14: in every reachable state list_conversations() returns exactly the
\* session ids that have at least one stored message, each as the caller
\* supplied it, ids that contain ':' included.
\* ------------------------------------------------------------------------
C14_ListsStoredSessions ==
    ListConversations(r) = {x \in SessionIds : Len(Conversation(x)) >= 1}

\* ------------------------------------------------------------------------
\* C15: when new_conversation returns n, get_context(n) is absent, the log of
\* n is the single system message 'New conversation started.', and
\* list_conversations lists n; and its store writes give the same for any
\* identifier without ':' (as uuid4 identifiers are) in any reachable store,
\* whatever was stored under it before.
\* ------------------------------------------------------------------------
ColonFree(x) == \A i \in 1..Len(x) : x[i] # ":"

StartsFresh(store, n) ==
    /\ GetContext(store, n) = None
    /\ ContextKey(n) \notin DOMAIN store
    /\ GetConversation(store, n)
           = <<[role |-> "system", content |-> <<"New conversation started.">>]>>
    /\ n \in ListConversations(store)

C15_NewConversationStartsFresh ==
    [][/\ \A n \in issued' \ issued : StartsFresh(r', n)
       /\ \A n \in {x \in SessionIds : ColonFree(x)} :
              StartsFresh(StartConversation(r', n), n)]_vars

\* new_conversation has returned an identifier whose session is as it was
\* created, while a session of a client holds a context and a log.
C15_Witness ==
    \E n \in issued, x \in SessionIds :
        /\ StartsFresh(r, n)
        /\ ColonFree(x)
        /\ GetContext(r, x) # None
        /\ Len(Conversation(x)) > 1

\* ------------------------------------------------------------------------
\* C16: for a session that no accepted chat_stream turn and no
\* new_conversation call has named, get_context is absent and
\* get_conversation is the empty sequence, the store holds neither of its
\* keys, and GET /conversation/{session_id} answers with no messages and
\* leaves the store and what list_conversations returns as they were.
\* ------------------------------------------------------------------------
Unknown(s) ==
    /\ s \notin issued
    /\ \A t \in Turns : Started(t) => session_id[t] # s

ReadsNothing(s) ==
    /\ GetContext(r, s) = None
    /\ GetConversation(r, s) = <<>>
    /\ StoredUnder(r, s) = <<None, None>>

C16_UnknownSessionIsEmpty ==
    [][/\ \A s \in SessionIds : (Unknown(s) => ReadsNothing(s))'
       /\ UNCHANGED <<relay, agent>>
            => /\ history'.some
               /\ ListConversations(r') = ListConversations(r)
               /\ Unknown(history'.val.session_id)
                    => history'.val.messages = <<>>]_vars

\* A client has read the history of a session nobody has written to, got no
\* messages, and the session is still unknown to a store that holds others.
C16_Witness ==
    /\ history.some
    /\ Unknown(history.val.session_id)
    /\ history.val.messages = <<>>
    /\ ReadsNothing(history.val.session_id)
    /\ \E x \in SessionIds : GetContext(r, x) # None

\* ------------------------------------------------------------------------
\* C17: in no reachable state has the client been handed the frame of a
\* terminal event, which tells it the turn is done, while the store writes of
\* that event are still to be made: a turn has appended as many assistant
\* messages as it has yielded terminal frames.
\* ------------------------------------------------------------------------
TerminalFrames(t) == {i \in 1..Len(frames[t]) : IsTerminal(frames[t][i][2])}

C17_CommittedBeforeDoneReported ==
    \A t \in Turns :
        Cardinality(TerminalFrames(t)) = Cardinality(Appends(writes[t]))

\* ------------------------------------------------------------------------
\* C18: under any interleaving the log of every session is append-only and
\* chronological: every step leaves the previous log a prefix of the new one,
\* every entry's role is user, assistant or system, a turn's user message is
\* in the log when its generation request is issued, and a turn has appended
\* an assistant message only for a terminal event it has processed.
\* ------------------------------------------------------------------------
IsPrefix(a, b) == Len(a) <= Len(b) /\ SubSeq(b, 1, Len(a)) = a

Roles == {"user", "assistant", "system"}

LogsWellFormed ==
    /\ \A x \in SessionIds :
           \A i \in 1..Len(Conversation(x)) : Conversation(x)[i].role \in Roles
    /\ \A t \in Turns :
           payload[t].some
               => /\ user_at[t] \in 1..Len(Conversation(session_id[t]))
                  /\ Conversation(session_id[t])[user_at[t]]
                         = [role |-> "user", content |-> payload[t].val.prompt]
    /\ \A t \in Turns :
           Cardinality(Appends(writes[t]))
               = Cardinality(TerminalAt(ProcessedEvents(t)))

C18_LogAppendOnly ==
    [][/\ \A x \in SessionIds :
            IsPrefix(Conversation(x), GetConversation(r', x))
       /\ \A t \in Turns :
            (payload'[t] # payload[t])
                => /\ Len(GetConversation(r', session_id'[t]))
                          = Len(Conversation(session_id'[t])) + 1
                   /\ user_at'[t] = Len(GetConversation(r', session_id'[t]))
       /\ \A t \in Turns :
            (writes'[t] # writes[t])
                => /\ IsTerminal(data[t])
                   /\ frames[t][Len(frames[t])] = SseFrame(data[t])
       /\ LogsWellFormed']_vars

\* Two turns on one session were in flight together and one has appended its
\* assistant message behind the other's user message.
C18_Witness ==
    \E t \in Turns, u \in Turns :
        /\ t # u
        /\ Started(t) /\ Started(u)
        /\ session_id[t] = session_id[u]
        /\ interleaved[t]
        /\ HasAppended(writes[t])
        /\ Len(Conversation(session_id[t])) >= 3

\* ------------------------------------------------------------------------
\* C19: the frame of a terminal event is yielded strictly before that event's
\* set_context and assistant append_message run: every step that makes a
\* turn's store writes finds the event's frame already yielded as the turn's
\* last frame and yields none itself, and no turn has made more commits than
\* it has yielded terminal frames. (The state the claim says is reachable is
\* C19_Witness.)
\* ------------------------------------------------------------------------
C19_TerminalFrameBeforeCommit ==
    [][/\ \A t \in Turns :
            (writes'[t] # writes[t])
                => /\ pc[t] = "yielded"
                   /\ IsTerminal(data[t])
                   /\ frames[t] # <<>>
                   /\ frames[t][Len(frames[t])] = SseFrame(data[t])
                   /\ frames'[t] = frames[t]
       /\ \A t \in Turns :
            Cardinality(Appends(writes'[t])) <= Cardinality(TerminalFrames(t)')
      ]_vars

\* The client holds the frame of a terminal event with a context while the
\* store still holds the context the turn read at its start and no assistant
\* message.
C19_Witness ==
    \E t \in Turns :
        /\ pc[t] = "yielded"
        /\ connected[t]
        /\ IsTerminal(data[t])
        /\ Truthy(EventContext(data[t]))
        /\ frames[t][Len(frames[t])] = SseFrame(data[t])
        /\ writes[t] = <<>>
        /\ GetContext(r, session_id[t]) = existing_context[t]
        /\ GetContext(r, session_id[t]) # EventContext(data[t])
        /\ \A i \in 1..Len(Conversation(session_id[t])) :
               Conversation(session_id[t])[i].role # "assistant"

\* ------------------------------------------------------------------------
\* C20: in the console loop, after n rounds state['messages'] has length 2n
\* and alternates user input, model reply; in each round ollama_node sends the
\* last message as the prompt and appends exactly one reply; and the context
\* sent to the backend in round k+1 equals the context round k left in the
\* state (in round 1: no context).
\* ------------------------------------------------------------------------
SentContext(p) == IF "context" \in DOMAIN p THEN Some(p.context) ELSE None

Pending == IF agent_pc \in {"invoke", "crashed"} THEN 1 ELSE 0

RoundsAlternate ==
    /\ Len(inputs) = Len(rounds) + Pending
    /\ Len(state.messages) = 2 * Len(rounds) + Pending
    /\ \A k \in 1..Len(inputs) : state.messages[2 * k - 1] = inputs[k]
    /\ \A k \in 1..Len(rounds) :
           /\ state.messages[2 * k] = DictGet(rounds[k].result, "response", <<>>)
           /\ rounds[k].payload.prompt = inputs[k]
           /\ rounds[k].payload.stream = FALSE
    /\ state.context = IF rounds = <<>> THEN None ELSE rounds[Len(rounds)].context

LeftBefore(k) == IF k = 1 THEN None ELSE rounds[k - 1].context

C20_ContextCarriedOver ==
    /\ RoundsAlternate
    /\ \A k \in 1..Len(rounds) : SentContext(rounds[k].payload) = LeftBefore(k)

\* C20 as amended: the same, with the context sent in round k+1 equal to the
\* context round k left in the state when that is a non-empty token list; when
\* it is None or the empty list the request carries no context field.
C20_NonEmptyContextCarriedOver ==
    /\ RoundsAlternate
    /\ \A k \in 1..Len(rounds) :
           SentContext(rounds[k].payload)
               = IF Truthy(LeftBefore(k)) THEN LeftBefore(k) ELSE None

\* Two rounds are done, and the second sent the context the first left.
C20_Witness ==
    /\ agent_pc = "input"
    /\ Len(rounds) = 2
    /\ Len(state.messages) = 4
    /\ Truthy(rounds[1].context)
    /\ SentContext(rounds[2].payload) = rounds[1].context

====
